---- MODULE Spec2Model ----
(***************************************************************************)
(* Model of the k9sSetup tunnel tooling: the tunnel state store            *)
(* (src/k9sSetup/src/tunnel.py), the connect operation                     *)
(* (src/k9sSetup/multi_connect.py) and the status listing                  *)
(* (src/k9sSetup/src/multi_status.py, network_validator.py).               *)
(*                                                                         *)
(* The state is the state directory (one .pid and one .network file per    *)
(* context) and the OS process table.  Every CLI operation is one action;  *)
(* the environment may end a process or start an unrelated one.  The       *)
(* variable "last" observes the operation that just ran: its inputs, what  *)
(* it found before it acted, and what it returned.                         *)
(***************************************************************************)
EXTENDS Integers, Sequences, FiniteSets, TLC

\* ------------------------------------------------------------------ bounds

\* Process ids the OS hands out are 1..MaxPid (ids are reused once free).
MaxPid == 2

\* ------------------------------------------------------------ value spaces

\* Context names "{company}-{host_alias}" (multi_connect.py:235), ascending.
CtxSeq == <<"a-h1", "a-h2">>
Ctx == {CtxSeq[i] : i \in 1..Len(CtxSeq)}

Pids == 1..MaxPid

\* Python's None where a string or a process id is optional.
NoneStr == "None"
NonePid == 0

\* The network range inventory gives a host behind the overlay.
Cidr == "192.168.90.0/24"
InternalIp == "10.0.5.20"

\* A command line is a sequence of parts; None is the empty sequence.
NoneCmd == <<>>

\* What the inventory says of a cluster: (network_type, network_range).
NetKinds ==
    { [network_type |-> NoneStr, network_range |-> NoneStr],
      [network_type |-> "sshuttle", network_range |-> Cidr] }

\* ------------------------------------------------------- decimal file text

\* A file's text is a sequence of characters; the digits are 0..9.
RECURSIVE Str(_)
Str(n) ==
    IF n < 10 THEN <<n>> ELSE Str(n \div 10) \o <<n % 10>>

RECURSIVE DigitsValue(_)
DigitsValue(s) ==
    IF Len(s) = 0 THEN 0
    ELSE 10 * DigitsValue(SubSeq(s, 1, Len(s) - 1)) + s[Len(s)]

\* int(text): a ValueError for the empty text or a non-digit.
ParseInt(s) ==
    IF Len(s) > 0 /\ \A i \in 1..Len(s) : s[i] \in 0..9
    THEN [ok |-> TRUE, val |-> DigitsValue(s)]
    ELSE [ok |-> FALSE, val |-> NonePid]

\* ---------------------------------------------------------- port allocation

\* The defaults of get_unique_port and of the port_range_* configuration.
DefaultRangeStart == 16443
DefaultRangeSize == 10000
DefaultRange == [start |-> DefaultRangeStart, size |-> DefaultRangeSize]

\* A configured range other than the default (the docstring's example).
CustomRange == [start |-> 20000, size |-> 5000]

\* The port ranges a config.yaml may set.
PortRanges == {DefaultRange, CustomRange}

\* None where a port is optional.
NonePort == 0

\* The names get_unique_port is applied to: the contexts and one more.
PortNames == Ctx \cup {"acme-prod1"}

\* hashlib.md5(name.encode()).hexdigest(): the leading hexadecimal digits of
\* the digest of each name (a digit is 0..15).
md5_hexdigest(name) ==
    CASE name = "a-h1" -> <<9, 1, 11, 9, 8, 10>>
      [] name = "a-h2" -> <<0, 10, 9, 15, 3, 11>>
      [] name = "acme-prod1" -> <<5, 8, 8, 8, 13, 10>>

\* int(text, 16)
RECURSIVE HexValue(_)
HexValue(s) ==
    IF Len(s) = 0 THEN 0
    ELSE 16 * HexValue(SubSeq(s, 1, Len(s) - 1)) + s[Len(s)]

\* get_unique_port as it would be with a modulus one too large.
get_unique_port_wide(context_name, port_range_start, port_range_size) ==
    port_range_start
        + (HexValue(SubSeq(md5_hexdigest(context_name), 1, 4)) % (port_range_size + 1))

\* get_unique_port
get_unique_port(context_name, port_range_start, port_range_size) ==
    port_range_start
        + (HexValue(SubSeq(md5_hexdigest(context_name), 1, 4)) % port_range_size)

\* get_tunnel_port (multi_status.py): the port of the default range.
get_tunnel_port(context_name) ==
    get_unique_port(context_name, DefaultRangeStart, DefaultRangeSize)

\* fetch_and_merge_kubeconfig, as far as connect_cluster uses its result:
\* the local port is the allocator's, for the configured range.
fetch_and_merge_kubeconfig(c, port_range_start, port_range_size) ==
    [context_name |-> c,
     local_port |-> get_unique_port(c, port_range_start, port_range_size),
     internal_ip |-> InternalIp]

\* --------------------------------------------------------------- the state

VARIABLES
    pidFile,    \* pidFile[c]: the file {c}.pid: [exists, text]
    netFile,    \* netFile[c]: the file {c}.network: [exists, empty, doc]
    proc,       \* proc[p]: the process table entry of pid p
    last,       \* the operation that ran last, as the caller saw it
    batch,      \* the run of multi_connect.main in progress: its position,
                \* the selected clusters and the results so far
    inv         \* inv[i]: the position and locals of invocation i when two
                \* invocations run connect_cluster side by side

vars == <<pidFile, netFile, proc, last, batch, inv>>

NoFile == [exists |-> FALSE, text |-> <<>>]

\* A metadata document: a key whose value is NoneStr is not in the document.
NoDoc ==
    [network_type |-> NoneStr, network_range |-> NoneStr,
     sshuttle_command |-> NoneCmd, needs_vpn |-> FALSE,
     internal_ip |-> NoneStr]

\* No .network file.  A file that exists holds a document, or nothing
\* (empty), or the beginning of a document that YAML cannot parse (torn).
NoNet == [exists |-> FALSE, empty |-> FALSE, torn |-> FALSE, doc |-> NoDoc]

NoProc == [alive |-> FALSE, owner |-> "me", cmd |-> "none"]

\* The observation of an operation; the defaults are those of no operation.
NoOp ==
    [op |-> "init", ctx |-> "none", ok |-> FALSE, raised |-> FALSE,
     error |-> "none", tunnel_pid |-> NonePid, spawned |-> 0,
     signals |-> {}, changed |-> {}, preProbe |-> "none",
     kind |-> NoneStr, needs_vpn |-> FALSE, spawnOk |-> FALSE,
     lookupOk |-> FALSE, listing |-> <<>>,
     local_port |-> NonePort, range |-> DefaultRange,
     sent |-> {}, targets |-> {},
     rangeProbe |-> "none", anyProbe |-> "none", warning |-> <<>>,
     once |-> [ok |-> FALSE, raised |-> FALSE, changed |-> {},
               listing |-> <<>>]]

\* No run of main: no cluster loaded, nothing selected, no result, no
\* context handed to set_current_context, no exit status.
NoBatch ==
    [pc |-> "idle", clusters |-> 0, selected |-> <<>>, pending |-> <<>>,
     results |-> <<>>, use_context |-> "none", active |-> "none",
     exit |-> "none"]

\* The invocations that may run side by side.
Invocations == {1, 2}

\* An invocation that runs nothing: its position, its context, the process
\* it spawned, the id it looked up, and whether the .pid file it holds open
\* has been unlinked under it; for an invocation of list_all_contexts, the
\* .pid files its loop has still to visit, the value of tunnel_running for
\* the one it is at, and its list contexts.
NoInv ==
    [pc |-> "idle", ctx |-> "none", newpid |-> NonePid, pid |-> NonePid,
     orphan |-> FALSE, pending |-> <<>>, running |-> FALSE,
     contexts |-> <<>>]

\* -------------------------------------------------------- the process table

\* Python's exception classes: e is an instance of class cls.
IsInstance(e, cls) ==
    \/ e = cls
    \/ cls = "OSError" /\ e \in {"ProcessLookupError", "PermissionError"}

\* Whether "except (classes)" catches e.
Catches(classes, e) == \E cls \in classes : IsInstance(e, cls)

\* os.kill(pid, sig): the error it raises, or "ok".
os_kill(pr, pid) ==
    IF pid \notin Pids \/ ~pr[pid].alive THEN "ProcessLookupError"
    ELSE IF pr[pid].owner # "me" THEN "PermissionError"
    ELSE "ok"

\* The process table after os.kill(pid, SIGTERM): the process ends.
Terminated(pr, pid) ==
    IF os_kill(pr, pid) = "ok" THEN [pr EXCEPT ![pid] = NoProc] ELSE pr

\* pgrep -f "ssh.*{port}:{ip}:{remote_port}": the matching pids, ascending.
Matching(pr, c) == {p \in Pids : pr[p].alive /\ pr[p].cmd = c}

MinOf(S) == CHOOSE x \in S : \A y \in S : x <= y

\* The files an operation changed.
Changed(pf, nf, pf2, nf2) ==
    {<<c, "pid">> : c \in {d \in Ctx : pf2[d] # pf[d]}}
        \cup {<<c, "network">> : c \in {d \in Ctx : nf2[d] # nf[d]}}

\* What a .pid file holds: nothing, no process id, or the id of no process,
\* of a process of this user, or of a process of another user.
ProbeOf(pf, pr, c) ==
    IF ~pf[c].exists THEN "none"
    ELSE IF ~ParseInt(pf[c].text).ok THEN "unparseable"
    ELSE IF ~pr[ParseInt(pf[c].text).val].alive THEN "no process"
    ELSE IF pr[ParseInt(pf[c].text).val].owner = "me" THEN "mine"
    ELSE "not mine"

\* ------------------------------------------------------------- tunnel.py

\* The body of the try block of is_tunnel_running and kill_tunnel: read the
\* file, parse the id, send the signal.  [error, pid]
read_and_signal(pf, pr, c) ==
    LET parsed == ParseInt(pf[c].text)
    IN  IF ~parsed.ok THEN [error |-> "ValueError", pid |-> NonePid]
        ELSE [error |-> os_kill(pr, parsed.val), pid |-> parsed.val]

\* is_tunnel_running as it would be without the unlink of the stale file.
is_tunnel_running_keeps_stale(pf, pr, c) ==
    IF ~pf[c].exists THEN [raised |-> FALSE, ret |-> FALSE, pidFile |-> pf]
    ELSE [raised |-> FALSE,
          ret |-> read_and_signal(pf, pr, c).error = "ok",
          pidFile |-> pf]

\* is_tunnel_running as it would be without the test of pid_file.exists()
\* and with a plain unlink(): open() of a missing file raises
\* FileNotFoundError, an OSError, and the unlink of the except clause raises
\* it again, to the caller.
is_tunnel_running_strict_unlink(pf, pr, c) ==
    IF ~pf[c].exists THEN [raised |-> TRUE, ret |-> FALSE, pidFile |-> pf]
    ELSE LET try == read_and_signal(pf, pr, c)
         IN  IF try.error = "ok"
             THEN [raised |-> FALSE, ret |-> TRUE, pidFile |-> pf]
             ELSE [raised |-> FALSE, ret |-> FALSE,
                   pidFile |-> [pf EXCEPT ![c] = NoFile]]

\* is_tunnel_running: [raised, ret, pidFile]
is_tunnel_running(pf, pr, c) ==
    IF ~pf[c].exists THEN [raised |-> FALSE, ret |-> FALSE, pidFile |-> pf]
    ELSE LET try == read_and_signal(pf, pr, c)
         IN  IF try.error = "ok"
             THEN [raised |-> FALSE, ret |-> TRUE, pidFile |-> pf]
             ELSE IF Catches({"ValueError", "ProcessLookupError", "OSError"}, try.error)
             THEN [raised |-> FALSE, ret |-> FALSE,
                   pidFile |-> [pf EXCEPT ![c] = NoFile]]
             ELSE [raised |-> TRUE, ret |-> FALSE, pidFile |-> pf]

\* kill_tunnel as it would be with the unlink at the end of the try block
\* and no finally clause.
kill_tunnel_no_finally(pf, pr, c) ==
    IF ~pf[c].exists
    THEN [raised |-> FALSE, sent |-> {}, signals |-> {}, proc |-> pr,
          pidFile |-> pf]
    ELSE LET try == read_and_signal(pf, pr, c)
         IN  [raised |-> FALSE,
              sent |-> IF try.error = "ValueError" THEN {} ELSE {try.pid},
              signals |-> IF try.error = "ok" THEN {try.pid} ELSE {},
              proc |-> IF try.error = "ok" THEN Terminated(pr, try.pid) ELSE pr,
              pidFile |-> IF try.error = "ok"
                          THEN [pf EXCEPT ![c] = NoFile] ELSE pf]

\* kill_tunnel as it would be if it signalled the recorded process and then
\* removed every .pid file of the state directory.
kill_tunnel_clears_store(pf, pr, c) ==
    IF ~pf[c].exists
    THEN [raised |-> FALSE, sent |-> {}, signals |-> {}, proc |-> pr,
          pidFile |-> pf]
    ELSE LET try == read_and_signal(pf, pr, c)
         IN  [raised |-> FALSE,
              sent |-> IF try.error = "ValueError" THEN {} ELSE {try.pid},
              signals |-> IF try.error = "ok" THEN {try.pid} ELSE {},
              proc |-> IF try.error = "ok" THEN Terminated(pr, try.pid) ELSE pr,
              pidFile |-> [d \in Ctx |-> NoFile]]

\* kill_tunnel: [raised, sent, signals, proc, pidFile]: sent holds the id
\* os.kill was called with, signals the id the signal reached; the finally
\* clause unlinks the file whatever the try block did.
kill_tunnel(pf, pr, c) ==
    IF ~pf[c].exists
    THEN [raised |-> FALSE, sent |-> {}, signals |-> {}, proc |-> pr,
          pidFile |-> pf]
    ELSE LET try == read_and_signal(pf, pr, c)
         IN  [raised |-> try.error # "ok" /\ ~Catches({"ValueError", "ProcessLookupError", "OSError"}, try.error),
              sent |-> IF try.error = "ValueError" THEN {} ELSE {try.pid},
              signals |-> IF try.error = "ok" THEN {try.pid} ELSE {},
              proc |-> IF try.error = "ok" THEN Terminated(pr, try.pid) ELSE pr,
              pidFile |-> [pf EXCEPT ![c] = NoFile]]

\* The loop of kill_all_tunnels over the .pid files in directory order; an
\* exception of kill_tunnel would end it.  [raised, sent, signals, proc, pidFile]
RECURSIVE kill_loop(_, _)
kill_loop(order, acc) ==
    IF Len(order) = 0 \/ acc.raised THEN acc
    ELSE LET r == kill_tunnel(acc.pidFile, acc.proc, Head(order))
         IN  kill_loop(Tail(order),
                       [raised |-> r.raised,
                        sent |-> acc.sent \cup r.sent,
                        signals |-> acc.signals \cup r.signals,
                        proc |-> r.proc, pidFile |-> r.pidFile])

\* kill_all_tunnels as it would be if it returned after the first file.
kill_all_tunnels_first_only(order, pf, pr) ==
    kill_loop(IF Len(order) = 0 THEN order ELSE <<Head(order)>>,
              [raised |-> FALSE, sent |-> {}, signals |-> {}, proc |-> pr,
               pidFile |-> pf])

\* kill_all_tunnels: order is the order in which glob("*.pid") yields the
\* files.
kill_all_tunnels(order, pf, pr) ==
    kill_loop(order,
              [raised |-> FALSE, sent |-> {}, signals |-> {}, proc |-> pr,
               pidFile |-> pf])

\* create_tunnel as it would be if it raised when pgrep finds nothing.
create_tunnel_lookup_fatal(pr, c, spawnOk, newpid, lookupOk) ==
    IF ~spawnOk \/ ~lookupOk
    THEN [raised |-> TRUE, pid |-> NonePid,
          proc |-> IF spawnOk
                   THEN [pr EXCEPT ![newpid] = [alive |-> TRUE, owner |-> "me", cmd |-> c]]
                   ELSE pr]
    ELSE LET pr2 == [pr EXCEPT ![newpid] = [alive |-> TRUE, owner |-> "me", cmd |-> c]]
         IN  [raised |-> FALSE, pid |-> MinOf(Matching(pr2, c)), proc |-> pr2]

\* create_tunnel as it would be without the check of the spawn's exit status.
create_tunnel_unchecked(pr, c, spawnOk, newpid, lookupOk) ==
    LET pr2 == IF spawnOk
               THEN [pr EXCEPT ![newpid] = [alive |-> TRUE, owner |-> "me", cmd |-> c]]
               ELSE pr
    IN  [raised |-> FALSE,
         pid |-> IF lookupOk /\ Matching(pr2, c) # {}
                 THEN MinOf(Matching(pr2, c)) ELSE NonePid,
         proc |-> pr2]

\* create_tunnel: [raised, pid, proc]; the spawn's exit status, the pid the
\* OS gives the ssh process and whether pgrep finds a match are inputs.
create_tunnel(pr, c, spawnOk, newpid, lookupOk) ==
    IF ~spawnOk THEN [raised |-> TRUE, pid |-> NonePid, proc |-> pr]
    ELSE LET pr2 == [pr EXCEPT ![newpid] =
                        [alive |-> TRUE, owner |-> "me", cmd |-> c]]
         IN  [raised |-> FALSE,
              pid |-> IF lookupOk /\ Matching(pr2, c) # {}
                      THEN MinOf(Matching(pr2, c)) ELSE NonePid,
              proc |-> pr2]

\* save_tunnel_pid: the pid files afterwards
save_tunnel_pid(pf, c, pid) ==
    IF pid # NonePid
    THEN [pf EXCEPT ![c] = [exists |-> TRUE, text |-> Str(pid)]]
    ELSE pf

\* save_tunnel_pid cut short between open(pid_file, 'w'), which creates or
\* truncates the file, and f.write: the pid files afterwards
save_tunnel_pid_interrupted(pf, c, pid) ==
    IF pid # NonePid
    THEN [pf EXCEPT ![c] = [exists |-> TRUE, text |-> <<>>]]
    ELSE pf

\* save_network_metadata as it would be without its early return.
save_network_metadata_always(nf, c, network_type, network_range, sshuttle_command, needs_vpn, internal_ip) ==
    [nf EXCEPT ![c] =
        [exists |-> TRUE, empty |-> FALSE, torn |-> FALSE,
         doc |-> [network_type |-> network_type,
                  network_range |-> network_range,
                  sshuttle_command |-> sshuttle_command,
                  needs_vpn |-> needs_vpn,
                  internal_ip |-> internal_ip]]]

\* save_network_metadata: the network files afterwards
save_network_metadata(nf, c, network_type, network_range, sshuttle_command, needs_vpn, internal_ip) ==
    IF network_type = NoneStr /\ ~needs_vpn THEN nf
    ELSE [nf EXCEPT ![c] =
            [exists |-> TRUE, empty |-> FALSE, torn |-> FALSE,
             doc |-> [network_type |-> network_type,
                      network_range |-> network_range,
                      sshuttle_command |-> sshuttle_command,
                      needs_vpn |-> needs_vpn,
                      internal_ip |-> internal_ip]]]

\* save_network_metadata cut short inside its with block, by the end of the
\* process or by an exception of the dump, which the except clause
\* swallows: open(network_file, 'w') has created or truncated the file, and
\* it is left empty (cut = "empty") or with part of the document
\* (cut = "torn").
save_network_metadata_interrupted(nf, c, network_type, needs_vpn, cut) ==
    IF network_type = NoneStr /\ ~needs_vpn THEN nf
    ELSE [nf EXCEPT ![c] =
            [exists |-> TRUE, empty |-> cut = "empty", torn |-> cut = "torn",
             doc |-> NoDoc]]

\* remove_network_metadata: the network files afterwards
remove_network_metadata(nf, c) == [nf EXCEPT ![c] = NoNet]

\* ---------------------------------------------------- network_validator.py

\* get_network_metadata: [present, doc]; None for a missing file, for an
\* empty one (yaml.safe_load gives None) and for one that yaml.safe_load
\* cannot parse (the exception is caught).
get_network_metadata(nf, c) ==
    IF ~nf[c].exists THEN [present |-> FALSE, doc |-> NoDoc]
    ELSE IF nf[c].torn THEN [present |-> FALSE, doc |-> NoDoc]
    ELSE IF nf[c].empty THEN [present |-> FALSE, doc |-> NoDoc]
    ELSE [present |-> TRUE, doc |-> nf[c].doc]

\* What a pgrep run under a timeout gives its caller: a match, no match, or
\* subprocess.TimeoutExpired.
ProbeAnswers == {"match", "none", "timeout"}

\* check_sshuttle_active as it would be if its except clause returned True.
check_sshuttle_active_lenient(network_range, rangeProbe, anyProbe) ==
    IF rangeProbe = "timeout" THEN TRUE
    ELSE IF rangeProbe = "match" THEN TRUE
    ELSE IF anyProbe = "timeout" THEN TRUE
    ELSE anyProbe = "match"

\* check_sshuttle_active as it would be without the second pgrep run.
check_sshuttle_active_range_only(network_range, rangeProbe, anyProbe) ==
    IF rangeProbe = "timeout" THEN FALSE
    ELSE rangeProbe = "match"

\* check_sshuttle_active: rangeProbe answers pgrep -f "sshuttle.*{range}",
\* anyProbe answers the pgrep -f "sshuttle" that follows when the first finds
\* nothing; a timeout of either is caught and gives False.
check_sshuttle_active(network_range, rangeProbe, anyProbe) ==
    IF rangeProbe = "timeout" THEN FALSE
    ELSE IF rangeProbe = "match" THEN TRUE
    ELSE IF anyProbe = "timeout" THEN FALSE
    ELSE anyProbe = "match"

\* The warning of no warning (None); a warning is a sequence of text parts.
NoWarning == <<>>

\* validate_context_network as it would be with the sshuttle check ahead of
\* the needs_vpn check.
validate_context_network_vpn_last(nf, c, rangeProbe, anyProbe) ==
    LET metadata == get_network_metadata(nf, c)
        doc == metadata.doc
    IN  IF ~metadata.present THEN [valid |-> TRUE, warning |-> NoWarning]
        ELSE IF doc.network_type = "sshuttle"
                 /\ check_sshuttle_active(doc.network_range, rangeProbe, anyProbe)
        THEN [valid |-> TRUE, warning |-> NoWarning]
        ELSE IF doc.needs_vpn
        THEN [valid |-> FALSE,
              warning |-> <<"This cluster requires VPN connection">>]
        ELSE IF doc.network_type = "sshuttle"
        THEN [valid |-> FALSE,
              warning |-> <<"This cluster requires sshuttle for ",
                            doc.network_range, "\n  Run: ">>
                          \o doc.sshuttle_command]
        ELSE [valid |-> TRUE, warning |-> NoWarning]

\* validate_context_network: [valid, warning]
validate_context_network(nf, c, rangeProbe, anyProbe) ==
    LET metadata == get_network_metadata(nf, c)
        doc == metadata.doc
        sshuttle_cmd == IF doc.sshuttle_command # NoneCmd
                        THEN doc.sshuttle_command
                        ELSE <<"sshuttle -v -r <gateway> ", doc.network_range>>
    IN  IF ~metadata.present THEN [valid |-> TRUE, warning |-> NoWarning]
        ELSE IF doc.needs_vpn
        THEN [valid |-> FALSE,
              warning |-> <<"This cluster requires VPN connection">>]
        ELSE IF doc.network_type = "sshuttle"
                 /\ ~check_sshuttle_active(doc.network_range, rangeProbe, anyProbe)
        THEN [valid |-> FALSE,
              warning |-> <<"This cluster requires sshuttle for ",
                            doc.network_range, "\n  Run: ">>
                          \o sshuttle_cmd]
        ELSE [valid |-> TRUE, warning |-> NoWarning]

\* ------------------------------------------------------- multi_status.py

\* get_tunnel_pid: the recorded id if its process answers the probe.
get_tunnel_pid(pf, pr, c) ==
    IF ~pf[c].exists THEN NonePid
    ELSE LET try == read_and_signal(pf, pr, c)
         IN  IF try.error = "ok" THEN try.pid ELSE NonePid

\* The rank of a context name in ascending order of names.
Rank(name) == CHOOSE i \in 1..Len(CtxSeq) : CtxSeq[i] = name

\* contexts.sort(key=name): insertion of e into a sorted sequence.
RECURSIVE InsertByName(_, _)
InsertByName(e, s) ==
    IF Len(s) = 0 THEN <<e>>
    ELSE IF Rank(e.name) < Rank(Head(s).name) THEN <<e>> \o s
    ELSE <<Head(s)>> \o InsertByName(e, Tail(s))

RECURSIVE SortByName(_)
SortByName(s) ==
    IF Len(s) = 0 THEN <<>> ELSE InsertByName(Head(s), SortByName(Tail(s)))

\* The loop of list_all_contexts over the .pid files in directory order:
\* [entries, pidFile].
RECURSIVE list_loop(_, _, _, _, _)
list_loop(order, pf, nf, pr, acc) ==
    IF Len(order) = 0 THEN [entries |-> acc, pidFile |-> pf]
    ELSE LET c == Head(order)
             run == is_tunnel_running(pf, pr, c)
             entry == [name |-> c,
                       tunnel_running |-> run.ret,
                       tunnel_pid |-> IF run.ret
                                      THEN get_tunnel_pid(run.pidFile, pr, c)
                                      ELSE NonePid,
                       local_port |-> get_tunnel_port(c),
                       network_metadata |-> get_network_metadata(nf, c)]
         IN  list_loop(Tail(order), run.pidFile, nf, pr, Append(acc, entry))

\* list_all_contexts as it would be without contexts.sort: the entries in
\* the order of the directory scan.
list_all_contexts_unsorted(order, pf, nf, pr) ==
    LET done == list_loop(order, pf, nf, pr, <<>>)
    IN  [listing |-> done.entries, pidFile |-> done.pidFile]

\* list_all_contexts as it would be with a liveness check that leaves the
\* .pid files alone.
list_all_contexts_keeps_records(order, pf, nf, pr) ==
    LET done == list_loop(order, pf, nf, pr, <<>>)
    IN  [listing |-> SortByName(done.entries), pidFile |-> pf]

\* list_all_contexts: [listing, pidFile]
list_all_contexts(order, pf, nf, pr) ==
    LET done == list_loop(order, pf, nf, pr, <<>>)
    IN  [listing |-> SortByName(done.entries), pidFile |-> done.pidFile]

\* show_status: the status it prints for an entry of the listing.
StatusOf(entry) == IF entry.tunnel_running THEN "running" ELSE "tunnel down"

\* The orders in which glob("*.pid") may yield the existing .pid files.
GlobOrders(pf) ==
    LET have == {c \in Ctx : pf[c].exists}
    IN  {s \in [1..Cardinality(have) -> have] :
            \A i, j \in 1..Cardinality(have) : i # j => s[i] # s[j]}

\* ------------------------------------------------------- multi_connect.py

SshuttleCmd(range) == <<"sshuttle -v -r helio@100.64.5.10 ", range>>

\* The sshuttle command connect_cluster records (lines 291-293).
CommandFor(kind) ==
    IF kind.network_type = "sshuttle" THEN SshuttleCmd(kind.network_range)
    ELSE NoneCmd

\* The network metadata step of connect_cluster (lines 289-302).
connect_metadata(nf, c, kind, vpn) ==
    IF kind.network_type # NoneStr \/ vpn
    THEN save_network_metadata(nf, c, kind.network_type, kind.network_range, CommandFor(kind), vpn, InternalIp)
    ELSE nf

\* connect_cluster as it would be without its except clause: an exception
\* of the fetch or of create_tunnel reaches the caller.
connect_cluster_propagates(pf, nf, pr, c, range, fetchOk, spawnOk, newpid, lookupOk, kind, vpn) ==
    IF ~fetchOk
    THEN [success |-> FALSE, raised |-> TRUE, error |-> "fetch", tunnel_pid |-> NonePid,
          local_port |-> NonePort,
          spawned |-> 0, pidFile |-> pf, netFile |-> nf, proc |-> pr]
    ELSE LET fetched == fetch_and_merge_kubeconfig(c, range.start, range.size)
             run == is_tunnel_running(pf, pr, c)
             made == create_tunnel(pr, c, spawnOk, newpid, lookupOk)
         IN  IF run.ret
             THEN [success |-> TRUE, raised |-> FALSE, error |-> "none",
                   tunnel_pid |-> ParseInt(run.pidFile[c].text).val,
                   local_port |-> fetched.local_port,
                   spawned |-> 0, pidFile |-> run.pidFile,
                   netFile |-> connect_metadata(nf, c, kind, vpn),
                   proc |-> pr]
             ELSE IF made.raised
             THEN [success |-> FALSE, raised |-> TRUE,
                   error |-> "Failed to create SSH tunnel",
                   tunnel_pid |-> NonePid, local_port |-> fetched.local_port,
                   spawned |-> 1,
                   pidFile |-> run.pidFile, netFile |-> nf, proc |-> pr]
             ELSE [success |-> TRUE, raised |-> FALSE, error |-> "none",
                   tunnel_pid |-> made.pid, local_port |-> fetched.local_port,
                   spawned |-> 1,
                   pidFile |-> save_tunnel_pid(run.pidFile, c, made.pid),
                   netFile |-> connect_metadata(nf, c, kind, vpn),
                   proc |-> made.proc]

\* connect_cluster: the result dict and the state afterwards.  fetchOk is
\* whether load_ssh_config and fetch_and_merge_kubeconfig returned; range is
\* the configured PORT_RANGE_START and PORT_RANGE_SIZE.  The except clause
\* turns every exception into a result with an error: nothing is raised.
connect_cluster(pf, nf, pr, c, range, fetchOk, spawnOk, newpid, lookupOk, kind, vpn) ==
    IF ~fetchOk
    THEN [success |-> FALSE, raised |-> FALSE, error |-> "fetch", tunnel_pid |-> NonePid,
          local_port |-> NonePort,
          spawned |-> 0, pidFile |-> pf, netFile |-> nf, proc |-> pr]
    ELSE LET fetched == fetch_and_merge_kubeconfig(c, range.start, range.size)
             run == is_tunnel_running(pf, pr, c)
             made == create_tunnel(pr, c, spawnOk, newpid, lookupOk)
         IN  IF run.ret
             THEN [success |-> TRUE, raised |-> FALSE, error |-> "none",
                   tunnel_pid |-> ParseInt(run.pidFile[c].text).val,
                   local_port |-> fetched.local_port,
                   spawned |-> 0, pidFile |-> run.pidFile,
                   netFile |-> connect_metadata(nf, c, kind, vpn),
                   proc |-> pr]
             ELSE IF made.raised
             THEN [success |-> FALSE, raised |-> FALSE,
                   error |-> "Failed to create SSH tunnel",
                   tunnel_pid |-> NonePid, local_port |-> fetched.local_port,
                   spawned |-> 1,
                   pidFile |-> run.pidFile, netFile |-> nf, proc |-> pr]
             ELSE [success |-> TRUE, raised |-> FALSE, error |-> "none",
                   tunnel_pid |-> made.pid, local_port |-> fetched.local_port,
                   spawned |-> 1,
                   pidFile |-> save_tunnel_pid(run.pidFile, c, made.pid),
                   netFile |-> connect_metadata(nf, c, kind, vpn),
                   proc |-> made.proc]

\* subprocess.run called with no timeout argument.
NoTimeout == 0

\* The timeout of the ssh spawn of create_tunnel (tunnel.py:164), of
\* kubectl config use-context (multi_connect.py:327-331) and of kubectl
\* config current-context (multi_status.py:26-31), in seconds.
SpawnTimeout == NoTimeout
UseContextTimeout == NoTimeout
CurrentContextTimeout == 5

\* subprocess.run(cmd, timeout=timeout): what the caller gets when the
\* command answers, or when it "hangs": TimeoutExpired once the timeout has
\* passed, and nothing, ever ("blocked"), when there is no timeout.
subprocess_run(timeout, answer) ==
    IF answer # "hangs" THEN answer
    ELSE IF timeout = NoTimeout THEN "blocked"
    ELSE "TimeoutExpired"

\* set_current_context: [blocked, ret]; answer is what kubectl does: "ok",
\* "fails" (CalledProcessError, caught) or "hangs".
set_current_context(answer) ==
    LET got == subprocess_run(UseContextTimeout, answer)
    IN  [blocked |-> got = "blocked", ret |-> got = "ok"]

\* get_current_context: [blocked, ret]; ret is whether the context is
\* returned (None after a failure or a timeout).
get_current_context(answer) ==
    LET got == subprocess_run(CurrentContextTimeout, answer)
    IN  [blocked |-> got = "blocked", ret |-> got = "ok"]

\* The network attributes build_cluster_list reads from the inventory for
\* the cluster of context c: the first is behind the overlay, the second
\* is reached directly.
Inventory(c) ==
    IF c = CtxSeq[1]
    THEN [kind |-> [network_type |-> "sshuttle", network_range |-> Cidr],
          vpn |-> FALSE]
    ELSE [kind |-> [network_type |-> NoneStr, network_range |-> NoneStr],
          vpn |-> FALSE]

\* The selections of select_clusters_interactive: the non-empty sequences
\* of distinct clusters.
Selections ==
    {<<c>> : c \in Ctx} \cup {sel \in Ctx \X Ctx : sel[1] # sel[2]}

\* The results taken as they come, with no test of r['success'].
Successful_unfiltered(results) == results

\* successful = [r for r in results if r['success']]
RECURSIVE Successful(_)
Successful(results) ==
    IF Len(results) = 0 THEN <<>>
    ELSE IF Head(results).success
    THEN <<Head(results)>> \o Successful(Tail(results))
    ELSE Successful(Tail(results))

\* ------------------------------------------------------------------- Init

Init ==
    /\ pidFile = [c \in Ctx |-> NoFile]
    /\ netFile = [c \in Ctx |-> NoNet]
    /\ proc = [p \in Pids |-> NoProc]
    /\ last = NoOp
    /\ batch = NoBatch
    /\ inv = [i \in Invocations |-> NoInv]

\* ---------------------------------------------------------------- actions

\* What is_tunnel_running or kill_tunnel found for context c.
Before(c) ==
    [NoOp EXCEPT !.ctx = c, !.preProbe = ProbeOf(pidFile, proc, c)]

\* The inputs of one run of connect_cluster: the cluster's network
\* attributes, whether the kubeconfig fetch returned and, for the calls
\* that create_tunnel makes, the exit status of the ssh spawn, the process
\* id the OS gives the ssh process and whether pgrep finds a match.  The
\* answer of a call that is never made is fixed, and so are the attributes
\* of a cluster whose fetch failed (nothing reads them).
ConnectInputs ==
    { in \in [fetchOk : BOOLEAN, spawnOk : BOOLEAN, lookupOk : BOOLEAN,
              newpid : Pids, kind : NetKinds, vpn : BOOLEAN] :
        /\ ~in.spawnOk => ~in.lookupOk /\ in.newpid = 1
        /\ ~in.fetchOk => ~in.spawnOk /\ ~in.vpn /\ in.kind.network_type = NoneStr }

\* One run of connect_cluster for context c under a configuration whose
\* port range is range (r is what it returns and the state it leaves).
\* create_tunnel is called only when the fetch returned and no tunnel is
\* running: otherwise there is no spawn whose exit status could be an input.
ConnectWith(c, range) ==
    \E in \in ConnectInputs :
        /\ ~(in.fetchOk /\ ~is_tunnel_running(pidFile, proc, c).ret) => ~in.spawnOk
        /\ in.spawnOk => ~proc[in.newpid].alive
        /\ \E r \in {connect_cluster(pidFile, netFile, proc, c, range, in.fetchOk, in.spawnOk, in.newpid, in.lookupOk, in.kind, in.vpn)} :
            /\ pidFile' = r.pidFile
            /\ netFile' = r.netFile
            /\ proc' = r.proc
            /\ UNCHANGED <<batch, inv>>
            /\ last' = [NoOp EXCEPT
                          !.op = "connect", !.ctx = c, !.ok = r.success,
                          !.error = r.error, !.tunnel_pid = r.tunnel_pid,
                          !.spawned = r.spawned,
                          !.changed = Changed(pidFile, netFile, r.pidFile, r.netFile),
                          !.kind = in.kind.network_type,
                          !.needs_vpn = in.vpn,
                          !.spawnOk = in.spawnOk, !.lookupOk = in.lookupOk,
                          !.local_port = r.local_port, !.range = range]

\* One run of connect_cluster under the default configuration.
Connect(c) == ConnectWith(c, DefaultRange)

\* A call of is_tunnel_running(c).
IsTunnelRunning(c) ==
    \E r \in {is_tunnel_running(pidFile, proc, c)} :
        /\ pidFile' = r.pidFile
        /\ UNCHANGED <<netFile, proc, batch, inv>>
        /\ last' = [Before(c) EXCEPT
                      !.op = "is_tunnel_running", !.ok = r.ret,
                      !.raised = r.raised,
                      !.changed = Changed(pidFile, netFile, r.pidFile, netFile)]

\* A call of kill_tunnel(c).
KillTunnel(c) ==
    \E r \in {kill_tunnel(pidFile, proc, c)} :
        /\ pidFile' = r.pidFile
        /\ proc' = r.proc
        /\ UNCHANGED <<netFile, batch, inv>>
        /\ last' = [Before(c) EXCEPT
                      !.op = "kill_tunnel", !.ok = ~r.raised,
                      !.raised = r.raised, !.signals = r.signals,
                      !.changed = Changed(pidFile, netFile, r.pidFile, netFile)]

\* A call of save_network_metadata(c, ...) with the attributes of a cluster.
SaveNetworkMetadata(c) ==
    \E kind \in NetKinds, vpn \in BOOLEAN :
        \E nf2 \in {save_network_metadata(netFile, c, kind.network_type, kind.network_range, CommandFor(kind), vpn, InternalIp)} :
            /\ netFile' = nf2
            /\ UNCHANGED <<pidFile, proc, batch, inv>>
            /\ last' = [NoOp EXCEPT
                          !.op = "save_network_metadata", !.ctx = c,
                          !.ok = TRUE,
                          !.kind = kind.network_type, !.needs_vpn = vpn,
                          !.changed = Changed(pidFile, netFile, pidFile, nf2)]

\* One run of list_all_contexts.
ListAll ==
    \E order \in GlobOrders(pidFile) :
        \E r \in {list_all_contexts(order, pidFile, netFile, proc)} :
            /\ pidFile' = r.pidFile
            /\ UNCHANGED <<netFile, proc, batch, inv>>
            /\ last' = [NoOp EXCEPT
                          !.op = "list_all_contexts", !.ok = TRUE,
                          !.listing = r.listing,
                          !.changed = Changed(pidFile, netFile, r.pidFile, netFile)]

\* Whether the metadata of c asks for sshuttle: validate_context_network(c)
\* scans for sshuttle processes only then.
AsksSshuttle(nf, c) ==
    /\ get_network_metadata(nf, c).present
    /\ get_network_metadata(nf, c).doc.network_type = "sshuttle"

\* One run of validate_context_network(c); the answers of the pgrep runs are
\* inputs.  The answer of a run that cannot be made is fixed.
ValidateContextNetwork(c) ==
    \E rangeProbe \in ProbeAnswers, anyProbe \in ProbeAnswers :
        /\ ~AsksSshuttle(netFile, c) => (rangeProbe = "none" /\ anyProbe = "none")
        /\ rangeProbe # "none" => anyProbe = "none"
        /\ \E r \in {validate_context_network(netFile, c, rangeProbe, anyProbe)} :
            /\ UNCHANGED <<pidFile, netFile, proc, batch, inv>>
            /\ last' = [NoOp EXCEPT
                          !.op = "validate_context_network", !.ctx = c,
                          !.ok = r.valid, !.warning = r.warning,
                          !.rangeProbe = rangeProbe, !.anyProbe = anyProbe]

\* The process ids named by the parseable .pid files.
RecordedPids(pf) ==
    {ParseInt(pf[c].text).val :
        c \in {d \in Ctx : pf[d].exists /\ ParseInt(pf[d].text).ok}}

\* One run of kill_all_tunnels.
KillAll ==
    \E order \in GlobOrders(pidFile) :
        \E r \in {kill_all_tunnels(order, pidFile, proc)} :
            /\ pidFile' = r.pidFile
            /\ proc' = r.proc
            /\ UNCHANGED <<netFile, batch, inv>>
            /\ last' = [NoOp EXCEPT
                          !.op = "kill_all_tunnels", !.ok = ~r.raised,
                          !.raised = r.raised, !.sent = r.sent,
                          !.signals = r.signals,
                          !.targets = RecordedPids(pidFile),
                          !.changed = Changed(pidFile, netFile, r.pidFile, netFile)]

\* The environment: a process ends (a tunnel dies, is killed by hand, ...).
ProcExit(p) ==
    /\ proc[p].alive
    /\ proc' = [proc EXCEPT ![p] = NoProc]
    /\ UNCHANGED <<pidFile, netFile, batch, inv>>
    /\ last' = [NoOp EXCEPT !.op = "env"]

\* The environment: an unrelated process starts under a free process id, as
\* this user or as another one.  The program meets such a process only
\* through an id that a .pid file names, so only those reuses are modelled.
ForeignStart(p) ==
    \E owner \in {"me", "other"} :
        /\ ~proc[p].alive
        /\ \E c \in Ctx : pidFile[c].exists /\ ParseInt(pidFile[c].text).val = p
        /\ proc' = [proc EXCEPT ![p] = [alive |-> TRUE, owner |-> owner, cmd |-> "none"]]
        /\ UNCHANGED <<pidFile, netFile, batch, inv>>
        /\ last' = [NoOp EXCEPT !.op = "env"]

Next ==
    \/ \E c \in Ctx : Connect(c)
    \/ \E c \in Ctx : IsTunnelRunning(c)
    \/ \E c \in Ctx : KillTunnel(c)
    \/ \E c \in Ctx : SaveNetworkMetadata(c)
    \/ ListAll
    \/ KillAll
    \/ \E p \in Pids : ProcExit(p)
    \/ \E p \in Pids : ForeignStart(p)

Spec == Init /\ [][Next]_vars

\* A run of connect_cluster that is killed (SIGKILL, power loss) while it
\* writes the .pid file of the tunnel it has just spawned.
ConnectInterrupted(c) ==
    \E newpid \in Pids :
        \E run \in {is_tunnel_running(pidFile, proc, c)}, made \in {create_tunnel(proc, c, TRUE, newpid, TRUE)} :
            /\ ~run.ret
            /\ ~proc[newpid].alive
            /\ pidFile' = save_tunnel_pid_interrupted(run.pidFile, c, made.pid)
            /\ proc' = made.proc
            /\ UNCHANGED <<netFile, batch, inv>>
            /\ last' = [NoOp EXCEPT !.op = "interrupted", !.ctx = c]

\* The operations on the TunnelRecords, with runs of connect_cluster that
\* may be cut short.
NextCrash ==
    \/ \E c \in Ctx : Connect(c)
    \/ \E c \in Ctx : IsTunnelRunning(c)
    \/ \E c \in Ctx : KillTunnel(c)
    \/ ListAll
    \/ KillAll
    \/ \E p \in Pids : ProcExit(p)
    \/ \E p \in Pids : ForeignStart(p)
    \/ \E c \in Ctx : ConnectInterrupted(c)

\* The program with runs that may be cut short while they write a file.
SpecCrash == Init /\ [][NextCrash]_vars

\* The program under any configured port range: connect_cluster runs with
\* the range of the invocation's config.yaml.
NextConfig ==
    \/ \E c \in Ctx, range \in PortRanges : ConnectWith(c, range)
    \/ \E c \in Ctx : IsTunnelRunning(c)
    \/ \E c \in Ctx : KillTunnel(c)
    \/ \E c \in Ctx : SaveNetworkMetadata(c)
    \/ ListAll
    \/ KillAll
    \/ \E p \in Pids : ProcExit(p)
    \/ \E p \in Pids : ForeignStart(p)

SpecConfig == Init /\ [][NextConfig]_vars

\* The numbers of clusters build_cluster_list may find in the inventory.
ClusterCounts == {0, Cardinality(Ctx)}

\* main ends before its loop: with exit status 1 when build_cluster_list
\* finds no cluster, with exit status 0 when nothing is selected or the
\* user cancels.
BatchEarlyExit ==
    /\ batch.pc \in {"idle", "exited"}
    /\ \E found \in ClusterCounts :
          batch' = [NoBatch EXCEPT
                      !.pc = "exited", !.clusters = found,
                      !.exit = IF found = 0 THEN "1" ELSE "0",
                      !.active = batch.active]
    /\ last' = [NoOp EXCEPT !.op = "main"]
    /\ UNCHANGED <<pidFile, netFile, proc, inv>>

\* main reaches its loop with the clusters of sel selected.
BatchStart(sel) ==
    /\ batch.pc \in {"idle", "exited"}
    /\ batch' = [NoBatch EXCEPT !.pc = "loop", !.clusters = Cardinality(Ctx),
                                !.selected = sel,
                                !.pending = sel, !.active = batch.active]
    /\ last' = [NoOp EXCEPT !.op = "main"]
    /\ UNCHANGED <<pidFile, netFile, proc, inv>>

\* One turn of the loop of main: connect_cluster for the next selected
\* cluster, its result appended.  spawn is whether the ssh command that
\* create_tunnel runs ever returns.
BatchStep ==
    /\ batch.pc = "loop" /\ batch.pending # <<>>
    /\ \E in \in ConnectInputs, spawn \in {"returns", "hangs"} :
          LET c == Head(batch.pending)
              run == is_tunnel_running(pidFile, proc, c)
              creates == in.fetchOk /\ ~run.ret
          IN  /\ ~creates => (~in.spawnOk /\ spawn = "returns")
              /\ in.spawnOk => ~proc[in.newpid].alive
              /\ in.fetchOk => (in.kind = Inventory(c).kind /\ in.vpn = Inventory(c).vpn)
              /\ spawn = "hangs" => ~in.spawnOk
              /\ IF subprocess_run(SpawnTimeout, spawn) = "blocked"
                 THEN /\ pidFile' = run.pidFile
                      /\ UNCHANGED <<netFile, proc>>
                      /\ batch' = [batch EXCEPT !.pc = "blocked"]
                 ELSE \E r \in {connect_cluster(pidFile, netFile, proc, c, DefaultRange, in.fetchOk, in.spawnOk, in.newpid, in.lookupOk, in.kind, in.vpn)} :
                      /\ pidFile' = r.pidFile
                      /\ netFile' = r.netFile
                      /\ proc' = r.proc
                      /\ batch' = IF r.raised
                                  THEN [batch EXCEPT !.pc = "exited", !.exit = "1"]
                                  ELSE [batch EXCEPT
                                          !.pending = Tail(batch.pending),
                                          !.results = Append(batch.results,
                                              [context_name |-> c,
                                               success |-> r.success,
                                               error |-> r.error])]
    /\ last' = [NoOp EXCEPT !.op = "main"]
    /\ UNCHANGED inv

\* The end of main: exit status 1 when nothing connected, otherwise the
\* first successful context is made the active one.
BatchEnd ==
    /\ batch.pc = "loop" /\ batch.pending = <<>>
    /\ \E answer \in {"ok", "fails", "hangs"} :
          LET successful == Successful(batch.results)
              set == set_current_context(answer)
          IN  /\ Len(successful) = 0 => answer = "ok"
              /\ batch' = IF Len(successful) = 0
                          THEN [batch EXCEPT !.pc = "exited", !.exit = "1"]
                          ELSE IF set.blocked
                          THEN [batch EXCEPT
                                  !.pc = "blocked",
                                  !.use_context = successful[1].context_name]
                          ELSE [batch EXCEPT
                                  !.pc = "exited", !.exit = "0",
                                  !.use_context = successful[1].context_name,
                                  !.active = IF set.ret
                                             THEN successful[1].context_name
                                             ELSE batch.active]
    /\ last' = [NoOp EXCEPT !.op = "main"]
    /\ UNCHANGED <<pidFile, netFile, proc, inv>>

\* One run of show_status: the listing, then the current-context query,
\* whose answer is an input.
ShowStatus ==
    \E order \in GlobOrders(pidFile), answer \in {"ok", "fails", "hangs"} :
        \E r \in {list_all_contexts(order, pidFile, netFile, proc)}, cur \in {get_current_context(answer)} :
            /\ pidFile' = r.pidFile
            /\ batch' = IF cur.blocked THEN [batch EXCEPT !.pc = "blocked"]
                        ELSE batch
            /\ last' = [NoOp EXCEPT !.op = "show_status", !.ok = cur.ret]
            /\ UNCHANGED <<netFile, proc, inv>>

\* Runs of main and of show_status, one after the other, while processes
\* come and go.
NextBatch ==
    \/ BatchEarlyExit
    \/ \E sel \in Selections : BatchStart(sel)
    \/ BatchStep
    \/ BatchEnd
    \/ ShowStatus
    \/ \E p \in Pids : ProcExit(p)
    \/ \E p \in Pids : ForeignStart(p)

SpecBatch == Init /\ [][NextBatch]_vars

\* Two invocations start connect_cluster for the same context, which has no
\* tunnel; the kubeconfig fetch has returned.
InitRace ==
    /\ pidFile = [c \in Ctx |-> NoFile]
    /\ netFile = [c \in Ctx |-> NoNet]
    /\ proc = [p \in Pids |-> NoProc]
    /\ last = NoOp
    /\ batch = NoBatch
    /\ \E c \in Ctx :
          inv = [i \in Invocations |-> [NoInv EXCEPT !.pc = "check", !.ctx = c]]

\* Invocation i calls is_tunnel_running (multi_connect.py:275).  An unlink
\* of the stale file leaves an invocation that holds it open with a file
\* no path leads to.
RaceCheck(i) ==
    /\ inv[i].pc = "check"
    /\ \E run \in {is_tunnel_running(pidFile, proc, inv[i].ctx)} :
          /\ pidFile' = run.pidFile
          /\ inv' = [j \in Invocations |->
                       IF j = i
                       THEN [inv[i] EXCEPT
                               !.pc = IF run.ret THEN "meta" ELSE "spawn",
                               !.pid = IF run.ret
                                       THEN ParseInt(run.pidFile[inv[i].ctx].text).val
                                       ELSE NonePid]
                       ELSE IF inv[j].pc = "write" /\ inv[j].ctx = inv[i].ctx
                               /\ run.pidFile # pidFile
                       THEN [inv[j] EXCEPT !.orphan = TRUE]
                       ELSE inv[j]]
    /\ UNCHANGED <<netFile, proc, last, batch>>

\* Invocation i runs the ssh command of create_tunnel (tunnel.py:164-166).
RaceSpawn(i) ==
    /\ inv[i].pc = "spawn"
    /\ \E spawnOk \in BOOLEAN, newpid \in Pids :
          /\ ~spawnOk => newpid = 1
          /\ spawnOk => ~proc[newpid].alive
          /\ proc' = IF spawnOk
                     THEN [proc EXCEPT ![newpid] =
                             [alive |-> TRUE, owner |-> "me", cmd |-> inv[i].ctx]]
                     ELSE proc
          /\ inv' = [inv EXCEPT
                       ![i].pc = IF spawnOk THEN "lookup" ELSE "failed",
                       ![i].newpid = IF spawnOk THEN newpid ELSE NonePid]
    /\ UNCHANGED <<pidFile, netFile, last, batch>>

\* Invocation i, after time.sleep(0.5), looks its process up with pgrep
\* (tunnel.py:170-182).
RaceLookup(i) ==
    /\ inv[i].pc = "lookup"
    /\ \E lookupOk \in BOOLEAN :
          inv' = [inv EXCEPT
                    ![i].pc = "save",
                    ![i].pid = IF lookupOk /\ Matching(proc, inv[i].ctx) # {}
                               THEN MinOf(Matching(proc, inv[i].ctx))
                               ELSE NonePid]
    /\ UNCHANGED <<pidFile, netFile, proc, last, batch>>

\* Invocation i enters save_tunnel_pid: nothing for a pid of None, else
\* open(pid_file, 'w') creates or truncates the file (tunnel.py:194-196).
RaceOpen(i) ==
    /\ inv[i].pc = "save"
    /\ IF inv[i].pid = NonePid
       THEN /\ inv' = [inv EXCEPT ![i].pc = "meta"]
            /\ UNCHANGED pidFile
       ELSE /\ pidFile' = save_tunnel_pid_interrupted(pidFile, inv[i].ctx, inv[i].pid)
            /\ inv' = [inv EXCEPT ![i].pc = "write", ![i].orphan = FALSE]
    /\ UNCHANGED <<netFile, proc, last, batch>>

\* Invocation i writes str(pid) to the file it holds open and closes it
\* (tunnel.py:197).
RaceWrite(i) ==
    /\ inv[i].pc = "write"
    /\ pidFile' = IF inv[i].orphan THEN pidFile
                  ELSE save_tunnel_pid(pidFile, inv[i].ctx, inv[i].pid)
    /\ inv' = [inv EXCEPT ![i].pc = "meta"]
    /\ last' = [NoOp EXCEPT !.op = "save_tunnel_pid", !.ctx = inv[i].ctx,
                            !.tunnel_pid = inv[i].pid]
    /\ UNCHANGED <<netFile, proc, batch>>

\* Invocation i saves the network metadata and returns success
\* (multi_connect.py:289-305).
RaceMeta(i) ==
    /\ inv[i].pc = "meta"
    /\ netFile' = connect_metadata(netFile, inv[i].ctx, Inventory(inv[i].ctx).kind, Inventory(inv[i].ctx).vpn)
    /\ inv' = [inv EXCEPT ![i].pc = "done"]
    /\ UNCHANGED <<pidFile, proc, last, batch>>

NextRace ==
    \E i \in Invocations :
        \/ RaceCheck(i)
        \/ RaceSpawn(i)
        \/ RaceLookup(i)
        \/ RaceOpen(i)
        \/ RaceWrite(i)
        \/ RaceMeta(i)

\* Two invocations of connect_cluster for one context, step by step.
SpecRace == InitRace /\ [][NextRace]_vars

\* Two calls of is_tunnel_running(c) in a row, nothing happening in between:
\* once is what the first call returned and changed, the rest what the
\* second did.
IsTunnelRunningTwice(c) ==
    \E r1 \in {is_tunnel_running(pidFile, proc, c)} :
        \E r2 \in {is_tunnel_running(r1.pidFile, proc, c)} :
            /\ pidFile' = r2.pidFile
            /\ UNCHANGED <<netFile, proc, batch, inv>>
            /\ last' = [Before(c) EXCEPT
                          !.op = "is_tunnel_running twice",
                          !.once = [ok |-> r1.ret, raised |-> r1.raised,
                                    changed |-> Changed(pidFile, netFile, r1.pidFile, netFile),
                                    listing |-> <<>>],
                          !.ok = r2.ret, !.raised = r2.raised,
                          !.changed = Changed(r1.pidFile, netFile, r2.pidFile, netFile)]

\* Two runs of list_all_contexts in a row, nothing happening in between:
\* once is what the first run returned and changed, the rest what the
\* second did.
ListAllTwice ==
    \E order1 \in GlobOrders(pidFile) :
        \E r1 \in {list_all_contexts(order1, pidFile, netFile, proc)} :
            \E order2 \in GlobOrders(r1.pidFile) :
                \E r2 \in {list_all_contexts(order2, r1.pidFile, netFile, proc)} :
                    /\ pidFile' = r2.pidFile
                    /\ UNCHANGED <<netFile, proc, batch, inv>>
                    /\ last' = [NoOp EXCEPT
                                  !.op = "list_all_contexts twice",
                                  !.once = [ok |-> TRUE, raised |-> FALSE,
                                            changed |-> Changed(pidFile, netFile, r1.pidFile, netFile),
                                            listing |-> r1.listing],
                                  !.ok = TRUE, !.listing = r2.listing,
                                  !.changed = Changed(r1.pidFile, netFile, r2.pidFile, netFile)]

\* The liveness check and the listing called twice in a row in every state
\* of the store and the process table that tunnel creation, interrupted
\* writes and the environment produce.
NextTwice ==
    \/ \E c \in Ctx : Connect(c)
    \/ \E c \in Ctx : ConnectInterrupted(c)
    \/ \E c \in Ctx : IsTunnelRunningTwice(c)
    \/ ListAllTwice
    \/ \E p \in Pids : ProcExit(p)
    \/ \E p \in Pids : ForeignStart(p)

SpecTwice == Init /\ [][NextTwice]_vars

\* A call of save_network_metadata(c, ...) that is cut short while it
\* writes the file.
SaveNetworkMetadataInterrupted(c) ==
    \E kind \in NetKinds, vpn \in BOOLEAN, cut \in {"empty", "torn"} :
        \E nf2 \in {save_network_metadata_interrupted(netFile, c, kind.network_type, vpn, cut)} :
            /\ nf2 # netFile
            /\ netFile' = nf2
            /\ UNCHANGED <<pidFile, proc, batch, inv>>
            /\ last' = [NoOp EXCEPT !.op = "interrupted", !.ctx = c]

\* Invocation 1 starts connect_cluster for a context with no tunnel while
\* invocation 2 is about to list the contexts; the other context has no
\* tunnel or a recorded, running one.
InitStatus ==
    /\ netFile = [c \in Ctx |-> NoNet]
    /\ last = NoOp
    /\ batch = NoBatch
    /\ \E c \in Ctx, p \in Pids \cup {NonePid} :
          /\ inv = [i \in Invocations |->
                       IF i = 1 THEN [NoInv EXCEPT !.pc = "check", !.ctx = c]
                       ELSE [NoInv EXCEPT !.pc = "status"]]
          /\ pidFile = [d \in Ctx |->
                           IF d = c \/ p = NonePid THEN NoFile
                           ELSE [exists |-> TRUE, text |-> Str(p)]]
          /\ proc = [q \in Pids |->
                        IF q = p THEN [alive |-> TRUE, owner |-> "me",
                                       cmd |-> CHOOSE d \in Ctx : d # c]
                        ELSE NoProc]

\* Invocation i enters the loop of list_all_contexts: glob("*.pid") yields
\* the .pid files there are, in some order (multi_status.py:107-110).
ListBegin(i) ==
    /\ inv[i].pc = "status"
    /\ \E order \in GlobOrders(pidFile) :
          inv' = [inv EXCEPT ![i].pc = "list", ![i].pending = order,
                             ![i].contexts = <<>>]
    /\ UNCHANGED <<pidFile, netFile, proc, last, batch>>

\* Invocation i calls is_tunnel_running for the next file of its loop
\* (multi_status.py:111-112).  An unlink of the file leaves an invocation
\* that holds it open with a file no path leads to.
ListRun(i) ==
    /\ inv[i].pc = "list" /\ inv[i].pending # <<>>
    /\ \E run \in {is_tunnel_running(pidFile, proc, Head(inv[i].pending))} :
          /\ pidFile' = run.pidFile
          /\ inv' = [j \in Invocations |->
                       IF j = i
                       THEN [inv[i] EXCEPT !.pc = "pid", !.running = run.ret]
                       ELSE IF inv[j].pc = "write"
                               /\ inv[j].ctx = Head(inv[i].pending)
                               /\ run.pidFile # pidFile
                       THEN [inv[j] EXCEPT !.orphan = TRUE]
                       ELSE inv[j]]
    /\ UNCHANGED <<netFile, proc, last, batch>>

\* Invocation i calls get_tunnel_pid if the tunnel was found running, and
\* appends the entry of the context (multi_status.py:113-123).
ListPid(i) ==
    /\ inv[i].pc = "pid"
    /\ \E c \in {Head(inv[i].pending)} :
          inv' = [inv EXCEPT
                    ![i].pc = "list",
                    ![i].pending = Tail(inv[i].pending),
                    ![i].running = FALSE,
                    ![i].contexts =
                        Append(inv[i].contexts,
                               [name |-> c,
                                tunnel_running |-> inv[i].running,
                                tunnel_pid |-> IF inv[i].running
                                               THEN get_tunnel_pid(pidFile, proc, c)
                                               ELSE NonePid,
                                local_port |-> get_tunnel_port(c),
                                network_metadata |-> get_network_metadata(netFile, c)])]
    /\ UNCHANGED <<pidFile, netFile, proc, last, batch>>

\* Invocation i leaves the loop, sorts and returns the list
\* (multi_status.py:125-127).
ListEnd(i) ==
    /\ inv[i].pc = "list" /\ inv[i].pending = <<>>
    /\ inv' = [inv EXCEPT ![i].pc = "status", ![i].contexts = <<>>]
    /\ last' = [NoOp EXCEPT !.op = "list_all_contexts", !.ok = TRUE,
                            !.listing = SortByName(inv[i].contexts)]
    /\ UNCHANGED <<pidFile, netFile, proc, batch>>

NextStatus ==
    \/ \E i \in Invocations :
          \/ RaceCheck(i)
          \/ RaceSpawn(i)
          \/ RaceLookup(i)
          \/ RaceOpen(i)
          \/ RaceWrite(i)
          \/ RaceMeta(i)
          \/ ListBegin(i)
          \/ ListRun(i)
          \/ ListPid(i)
          \/ ListEnd(i)
    \/ \E p \in Pids : ProcExit(p)

\* One invocation of connect_cluster and one of list_all_contexts, step by
\* step, while tunnel processes may end.
SpecStatus == InitStatus /\ [][NextStatus]_vars

\* The network metadata store and its validator: metadata is written by
\* save_network_metadata alone (connect_cluster calls it with the same
\* arguments) and validate_context_network reads nothing else.
NextNetwork ==
    \/ \E c \in Ctx : SaveNetworkMetadata(c)
    \/ \E c \in Ctx : ValidateContextNetwork(c)

SpecNetwork == Init /\ [][NextNetwork]_vars

\* The metadata store with writes that may be cut short.
NextNetworkCrash ==
    \/ \E c \in Ctx : SaveNetworkMetadata(c)
    \/ \E c \in Ctx : SaveNetworkMetadataInterrupted(c)
    \/ \E c \in Ctx : ValidateContextNetwork(c)

SpecNetworkCrash == Init /\ [][NextNetworkCrash]_vars

\* The arguments get_unique_port is called with.
RangeStarts == {0, 1024, DefaultRangeStart, CustomRange.start, 55536}
RangeSizes == {1, 2, 7, CustomRange.size, DefaultRangeSize, 65536, 70000}

\* A call of get_unique_port(name, start, size).
GetUniquePort(name, start, size) ==
    /\ last' = [NoOp EXCEPT
                  !.op = "get_unique_port", !.ctx = name, !.ok = TRUE,
                  !.range = [start |-> start, size |-> size],
                  !.local_port = get_unique_port(name, start, size)]
    /\ UNCHANGED <<pidFile, netFile, proc, batch, inv>>

NextPort ==
    \E name \in PortNames, start \in RangeStarts, size \in RangeSizes :
        GetUniquePort(name, start, size)

\* The port allocator alone, over names and ranges.
SpecPort == Init /\ [][NextPort]_vars

\* ----------------------------------------------------------------- claims

\* The context the last operation was about (any one if it had none).
LastCtx == IF last.ctx \in Ctx THEN last.ctx ELSE CtxSeq[1]

\* C1: two calls of connect_cluster in a row for the same context, the first
\* successful and its tunnel still alive: the second spawns nothing and the
\* context has its TunnelRecord.
C1_IdempotentCreation ==
    [][(/\ last.op = "connect" /\ last.ok
        /\ last'.op = "connect" /\ last'.ctx = last.ctx
        /\ last'.error # "fetch")
       => (last'.spawned = 0 /\ pidFile'[last.ctx].exists)]_vars

\* C2: is_tunnel_running on a context whose record names a process id that
\* is not in the process table returns false and leaves the record absent.
C2_SelfHealing ==
    (last.op = "is_tunnel_running" /\ last.preProbe = "no process")
        => (~last.ok /\ ~last.raised /\ ~pidFile[LastCtx].exists)

C2_Witness ==
    /\ last.op = "is_tunnel_running" /\ last.preProbe = "no process"
    /\ ~last.ok /\ ~pidFile[LastCtx].exists
    /\ last.changed = {<<LastCtx, "pid">>}

\* C3: kill_tunnel on a context whose recorded process is already dead
\* raises nothing and leaves both the TunnelRecord and the NetworkMetadata
\* of the context absent.
C3_KillRemovesRecordAndMetadata ==
    (last.op = "kill_tunnel" /\ last.preProbe = "no process")
        => (/\ ~last.raised
            /\ ~pidFile[LastCtx].exists
            /\ ~netFile[LastCtx].exists)

\* C4: after every successful connect_cluster that reached the tunnel setup,
\* the context has a TunnelRecord, is_tunnel_running is true for it and the
\* recorded id is that of a live process.
C4_RecordAfterEnsure ==
    (last.op = "connect" /\ last.ok)
        => (/\ pidFile[LastCtx].exists
            /\ is_tunnel_running(pidFile, proc, LastCtx).ret
            /\ ParseInt(pidFile[LastCtx].text).ok
            /\ ParseInt(pidFile[LastCtx].text).val \in Pids
            /\ proc[ParseInt(pidFile[LastCtx].text).val].alive)

\* C5: when the spawn succeeds and the process-id discovery finds nothing,
\* connect_cluster does not fail: the id is unknown and the context is
\* reported as connected.
C5_LookupFailureIsNotFatal ==
    (last.op = "connect" /\ last.spawnOk /\ ~last.lookupOk)
        => (/\ last.ok /\ last.error = "none"
            /\ last.tunnel_pid = NonePid /\ last.spawned = 1)

C5_Witness ==
    /\ last.op = "connect" /\ last.spawnOk /\ ~last.lookupOk
    /\ last.ok /\ last.tunnel_pid = NonePid
    /\ Matching(proc, LastCtx) # {}

\* C6 as stated: when the spawn reports a non-zero exit, connect_cluster
\* fails with the creation error, spawns once, and leaves the state store
\* unchanged.
C6_SpawnFailureLeavesStore ==
    (last.op = "connect" /\ last.spawned = 1 /\ ~last.spawnOk)
        => (/\ ~last.ok /\ last.error = "Failed to create SSH tunnel"
            /\ last.changed = {})

\* C6 as amended: when the spawn reports a non-zero exit, connect_cluster
\* fails with the creation error, spawns once, and writes neither a
\* TunnelRecord nor a NetworkMetadata: the only change it may leave is the
\* removal, by the liveness check, of a stale TunnelRecord of that context.
C6_SpawnFailureWritesNothing ==
    (last.op = "connect" /\ last.spawned = 1 /\ ~last.spawnOk)
        => (/\ ~last.ok /\ last.error = "Failed to create SSH tunnel"
            /\ last.tunnel_pid = NonePid
            /\ ~pidFile[LastCtx].exists
            /\ last.changed \subseteq {<<LastCtx, "pid">>})

C6_Witness ==
    /\ last.op = "connect" /\ last.spawned = 1 /\ ~last.spawnOk
    /\ ~last.ok /\ last.error = "Failed to create SSH tunnel"
    /\ last.changed = {<<LastCtx, "pid">>}
    /\ (last.kind # NoneStr \/ last.needs_vpn)
    /\ ~netFile[LastCtx].exists

\* C7: kill_tunnel ends with the TunnelRecord of the context absent and
\* raises nothing, whatever it found: no record, an unparseable record, a
\* dead process, a live one, or one it may not signal.
C7_KillAlwaysRemovesRecord ==
    last.op = "kill_tunnel"
        => (~last.raised /\ ~pidFile[LastCtx].exists)

C7_Witness ==
    /\ last.op = "kill_tunnel" /\ last.preProbe = "unparseable"
    /\ ~last.raised /\ ~pidFile[LastCtx].exists
    /\ last.signals = {}

\* C8: is_tunnel_running returns true exactly when the context has a
\* TunnelRecord and the process it names is in the process table, also when
\* that process belongs to another user and the probe is refused.
C8_RunningIffProcessExists ==
    last.op = "is_tunnel_running"
        => (last.ok <=> last.preProbe \in {"mine", "not mine"})

C10_NoRequirementNoMetadata ==
    [][(/\ last.op = "connect" /\ last.ok
        /\ last.kind = NoneStr /\ ~last.needs_vpn
        /\ last'.op = "list_all_contexts")
       => \A i \in 1..Len(last'.listing) :
              last'.listing[i].name = last.ctx
                  => ~last'.listing[i].network_metadata.present]_vars

\* The 16-bit hash of a name that get_unique_port reduces into the range.
PortHash(name) == get_unique_port(name, 0, 65536)

\* C11: get_unique_port returns range_start + (h mod range_size) for the
\* hash h of the name, a port of [range_start, range_start + range_size);
\* with the default range it lies in [16443, 26443).
C11_PortInRange ==
    last.op = "get_unique_port"
        => (/\ last.local_port
                 = last.range.start + (PortHash(last.ctx) % last.range.size)
            /\ last.local_port >= last.range.start
            /\ last.local_port < last.range.start + last.range.size
            /\ last.range = DefaultRange
                 => (last.local_port >= 16443 /\ last.local_port < 26443))

C11_Witness ==
    /\ last.op = "get_unique_port" /\ last.ctx = "acme-prod1"
    /\ last.range = DefaultRange
    /\ last.local_port = 19107

\* C12: the local port the status listing reports for a context is the local
\* port its tunnel was created with, whatever port range was configured
\* when it was created.
C12_ListedPortIsTunnelPort ==
    [][(/\ last.op = "connect" /\ last.ok /\ last.spawned = 1
        /\ last'.op = "list_all_contexts")
       => \A i \in 1..Len(last'.listing) :
              last'.listing[i].name = last.ctx
                  => last'.listing[i].local_port = last.local_port]_vars

\* C13: after kill_all_tunnels no context has a TunnelRecord, nothing was
\* raised, and os.kill was called with the process id of every record that
\* was parseable when it started.
C13_KillAllClearsStore ==
    last.op = "kill_all_tunnels"
        => (/\ ~last.raised
            /\ \A c \in Ctx : ~pidFile[c].exists
            /\ last.targets \subseteq last.sent)

C13_Witness ==
    /\ last.op = "kill_all_tunnels"
    /\ Cardinality(last.targets) = 2 /\ last.sent = last.targets
    /\ Cardinality(last.signals) = 1
    /\ Cardinality(last.changed) = 2
    /\ \A c \in Ctx : ~pidFile[c].exists

\* The metadata validate_context_network loads for the last context.
LastMeta == get_network_metadata(netFile, LastCtx)

\* Whether a warning names the network range.
NamesCidr(warning) == \E i \in 1..Len(warning) : warning[i] = Cidr

\* C14 as stated: for a context whose metadata says sshuttle with a network
\* range, when no sshuttle process matching that range is found,
\* validate_context_network returns not satisfied with a remediation that
\* names the range.
C14_NoMatchingProcessNotSatisfied ==
    (/\ last.op = "validate_context_network"
     /\ LastMeta.present /\ LastMeta.doc.network_type = "sshuttle"
     /\ LastMeta.doc.network_range = Cidr
     /\ last.rangeProbe # "match")
        => (~last.ok /\ NamesCidr(last.warning))

\* C14 as amended: for a context whose metadata says sshuttle with a network
\* range and needs_vpn false, when no sshuttle process at all is found
\* (neither one matching the range nor any other), validate_context_network
\* returns not satisfied with a remediation that names the range.
C14_NoProcessNotSatisfied ==
    (/\ last.op = "validate_context_network"
     /\ LastMeta.present /\ LastMeta.doc.network_type = "sshuttle"
     /\ LastMeta.doc.network_range = Cidr
     /\ ~LastMeta.doc.needs_vpn
     /\ last.rangeProbe # "match" /\ last.anyProbe # "match")
        => (/\ ~last.ok /\ NamesCidr(last.warning)
            /\ last.warning[Len(last.warning)] = Cidr)

C14_Witness ==
    /\ last.op = "validate_context_network"
    /\ LastMeta.present /\ LastMeta.doc.network_type = "sshuttle"
    /\ ~LastMeta.doc.needs_vpn
    /\ last.rangeProbe = "none" /\ last.anyProbe = "none"
    /\ ~last.ok /\ NamesCidr(last.warning)

\* C15: for a context whose metadata has needs_vpn true,
\* validate_context_network returns not satisfied with the VPN warning,
\* whatever the network_type and whatever sshuttle processes are found.
C15_VpnNeverSatisfied ==
    (/\ last.op = "validate_context_network"
     /\ LastMeta.present /\ LastMeta.doc.needs_vpn)
        => (/\ ~last.ok
            /\ last.warning = <<"This cluster requires VPN connection">>)

C15_Witness ==
    /\ last.op = "validate_context_network"
    /\ LastMeta.present /\ LastMeta.doc.needs_vpn
    /\ LastMeta.doc.network_type = "sshuttle"
    /\ last.rangeProbe = "match"
    /\ ~last.ok /\ last.warning # NoWarning

\* C16: a .pid file that cannot be parsed does not abort list_all_contexts
\* and hides no context: every context with a .pid file has its entry, and
\* the context of the unparseable file is shown as a parse failure, not as
\* a tunnel that is down.
C16_CorruptRecordSurfaced ==
    [][last'.op = "list_all_contexts"
       => \A c \in Ctx :
             pidFile[c].exists
                 => \E i \in 1..Len(last'.listing) :
                        /\ last'.listing[i].name = c
                        /\ ProbeOf(pidFile, proc, c) = "unparseable"
                             => StatusOf(last'.listing[i]) # "tunnel down"]_vars

\* C17: a TunnelRecord is never seen empty or partially written: whenever
\* the .pid file of a context exists, it holds a complete process id.
C17_RecordNeverPartial ==
    \A c \in Ctx : pidFile[c].exists => ParseInt(pidFile[c].text).ok

\* The context names of a sequence of results.
NamesOf(results) == [i \in 1..Len(results) |-> results[i].context_name]

\* C18: in a run of main the results list is, at every turn of the loop, the
\* selected contexts processed so far, in selection order, failures
\* included; when main exits there is one result per selected context.
C18_BatchIsolation ==
    /\ batch.pc \in {"loop", "exited"}
         => (/\ Len(batch.results) <= Len(batch.selected)
             /\ NamesOf(batch.results)
                  = SubSeq(batch.selected, 1, Len(batch.results)))
    /\ batch.pc = "loop"
         => batch.pending
              = SubSeq(batch.selected, Len(batch.results) + 1, Len(batch.selected))
    /\ batch.pc = "exited"
         => NamesOf(batch.results) = batch.selected

C18_Witness ==
    /\ batch.pc = "exited" /\ Len(batch.selected) = 2
    /\ ~batch.results[1].success
    /\ batch.results[1].error = "Failed to create SSH tunnel"
    /\ batch.results[2].success
    /\ batch.exit = "0" /\ batch.active = batch.selected[2]

\* C19: no run of main is ever blocked for good in an external call.
C19_NeverBlocked == batch.pc # "blocked"

\* The context the two invocations connect.
RaceCtx == inv[1].ctx

\* C20: when two invocations of connect_cluster for a context with no tunnel
\* have both ended, however their steps interleaved, and one of them
\* reported success, the context has one TunnelRecord: it holds the process
\* id written by the last writer, a process that one of the two spawned.
\* (Stated for the runs in which every invocation that spawned a process
\* also found its id.)
C20_RaceLeavesOneRecord ==
    (/\ \A i \in Invocations : inv[i].pc \in {"done", "failed"}
     /\ \E i \in Invocations : inv[i].pc = "done"
     /\ \A i \in Invocations : inv[i].pc = "done" => inv[i].pid # NonePid)
        => (/\ pidFile[RaceCtx].exists
            /\ ParseInt(pidFile[RaceCtx].text).ok
            /\ ParseInt(pidFile[RaceCtx].text).val = last.tunnel_pid
            /\ \E i \in Invocations :
                   ParseInt(pidFile[RaceCtx].text).val = inv[i].newpid)

\* The operations of the tunnel manager that complete on the state store.
StoreOps ==
    {"connect", "kill_tunnel", "kill_all_tunnels", "is_tunnel_running",
     "list_all_contexts"}

\* C21: in every state reached when connect_cluster, kill_tunnel,
\* kill_all_tunnels, is_tunnel_running or list_all_contexts has completed, a
\* context has a NetworkMetadata file only if it also has a TunnelRecord.
C21_MetadataOnlyWithRecord ==
    last.op \in StoreOps
        => \A c \in Ctx : netFile[c].exists => pidFile[c].exists

\* C22: list_all_contexts leaves every NetworkMetadata file and every
\* TunnelRecord whose process is alive unchanged, creates no file, and
\* changes nothing in the process table (its only signal is the probe).
C22_ListingOnlySelfHeals ==
    [][last'.op = "list_all_contexts"
       => (/\ netFile' = netFile
           /\ proc' = proc
           /\ \A c \in Ctx :
                 /\ ProbeOf(pidFile, proc, c) \in {"mine", "not mine"}
                      => pidFile'[c] = pidFile[c]
                 /\ pidFile'[c].exists => pidFile'[c] = pidFile[c])]_vars

\* The names of the entries of a listing.
ListedNames(listing) == [i \in 1..Len(listing) |-> listing[i].name]

\* C23: list_all_contexts returns exactly one entry for each context that
\* has a .pid file when the call starts (also one the call itself removes as
\* stale), and the entries are in ascending order of context name.
C23_ListingCompleteAndSorted ==
    [][last'.op = "list_all_contexts"
       => (/\ \A c \in Ctx :
                 Cardinality({i \in 1..Len(last'.listing) :
                                 last'.listing[i].name = c})
                     = IF pidFile[c].exists THEN 1 ELSE 0
           /\ \A i \in 1..Len(last'.listing) : last'.listing[i].name \in Ctx
           /\ \A i, j \in 1..Len(last'.listing) :
                 i < j => Rank(last'.listing[i].name)
                              < Rank(last'.listing[j].name))]_vars

C23_Witness ==
    /\ last.op = "list_all_contexts"
    /\ ListedNames(last.listing) = CtxSeq
    /\ ~last.listing[1].tunnel_running
    /\ last.listing[2].tunnel_running
    /\ last.changed = {<<CtxSeq[1], "pid">>}

\* C24: is_tunnel_running called twice in a row with nothing in between:
\* the second call returns what the first returned, raises nothing and
\* changes nothing, so the store is as one call leaves it.
C24_SelfHealIdempotent ==
    last.op = "is_tunnel_running twice"
        => (/\ last.ok = last.once.ok
            /\ ~last.once.raised /\ ~last.raised
            /\ last.changed = {})

C24_Witness ==
    /\ last.op = "is_tunnel_running twice"
    /\ last.preProbe \in {"no process", "unparseable", "not mine"}
    /\ last.once.changed = {<<LastCtx, "pid">>}
    /\ ~last.once.ok /\ ~last.ok /\ last.changed = {}
    /\ ~pidFile[LastCtx].exists

\* C25 as stated: for a context whose metadata says sshuttle, when the
\* pgrep for the range finds nothing and the pgrep for any sshuttle process
\* finds one, validate_context_network returns valid with no warning.
C25_AnyOverlaySatisfies ==
    (/\ last.op = "validate_context_network"
     /\ LastMeta.present /\ LastMeta.doc.network_type = "sshuttle"
     /\ last.rangeProbe = "none" /\ last.anyProbe = "match")
        => (last.ok /\ last.warning = NoWarning)

\* C25 as amended: for a context whose metadata says sshuttle and whose
\* needs_vpn is false, when the pgrep for the range finds nothing and the
\* pgrep for any sshuttle process finds one, validate_context_network
\* returns valid with no warning.
C25_AnyOverlaySatisfiesWithoutVpn ==
    (/\ last.op = "validate_context_network"
     /\ LastMeta.present /\ LastMeta.doc.network_type = "sshuttle"
     /\ ~LastMeta.doc.needs_vpn
     /\ last.rangeProbe = "none" /\ last.anyProbe = "match")
        => (last.ok /\ last.warning = NoWarning)

C25_Witness ==
    /\ last.op = "validate_context_network"
    /\ LastMeta.present /\ LastMeta.doc.network_type = "sshuttle"
    /\ LastMeta.doc.network_range = Cidr
    /\ ~LastMeta.doc.needs_vpn
    /\ last.rangeProbe = "none" /\ last.anyProbe = "match"
    /\ last.ok /\ last.warning = NoWarning

\* Whether a sshuttle process was found by either pgrep run.
FoundSshuttle == last.rangeProbe = "match" \/ last.anyProbe = "match"

\* C26: validate_context_network returns valid with no warning for every
\* context without a .network file, and returns valid with no warning only
\* for a context with no unmet requirement: one with no .network file, or
\* one whose metadata was read, has needs_vpn false and, when it says
\* sshuttle, a sshuttle process was found.  A .network file that exists and
\* cannot be parsed is not reported as valid.
C26_ValidOnlyWithoutUnmetRequirement ==
    last.op = "validate_context_network"
        => (/\ ~netFile[LastCtx].exists
                 => (last.ok /\ last.warning = NoWarning)
            /\ (last.ok /\ last.warning = NoWarning)
                 => \/ ~netFile[LastCtx].exists
                    \/ /\ LastMeta.present
                       /\ ~LastMeta.doc.needs_vpn
                       /\ LastMeta.doc.network_type = "sshuttle" => FoundSshuttle)

\* C27: in a run of main the contexts are attempted one after the other in
\* selection order; the context handed to set_current_context, and so the
\* only one that can become the active context, is the first in that order
\* whose connection succeeded, never one that failed.
C27_FirstSuccessfulBecomesActive ==
    [][/\ batch'.pc \in {"loop", "blocked", "exited"}
            => NamesOf(batch'.results)
                 = SubSeq(batch'.selected, 1, Len(batch'.results))
       /\ batch'.use_context # "none"
            => \E i \in 1..Len(batch'.results) :
                  /\ batch'.results[i].context_name = batch'.use_context
                  /\ batch'.results[i].success
                  /\ \A j \in 1..(i - 1) : ~batch'.results[j].success
       /\ batch'.active # batch.active
            => (/\ batch.pc = "loop" /\ batch.pending = <<>>
                /\ batch'.active = batch'.use_context)
       /\ (batch'.pc = "exited" /\ batch'.exit = "0" /\ batch'.selected # <<>>)
            => batch'.use_context # "none"]_vars

C27_Witness ==
    /\ batch.pc = "exited" /\ batch.exit = "0"
    /\ batch.selected = <<CtxSeq[2], CtxSeq[1]>>
    /\ ~batch.results[1].success /\ batch.results[2].success
    /\ batch.use_context = CtxSeq[1] /\ batch.active = CtxSeq[1]

\* C28: a run of main exits with a non-zero status only when no cluster is
\* available at all: a selected context that fails to connect does not make
\* the run exit non-zero, also when it is the only one selected.
C28_NonZeroOnlyWithoutClusters ==
    (batch.pc = "exited" /\ batch.exit = "1") => batch.clusters = 0

\* The context of the invocation that writes the TunnelRecord.
WriterCtx == inv[1].ctx

\* C29: however the steps of is_tunnel_running (here: of a status listing)
\* interleave with those of an invocation that writes the TunnelRecord of
\* the same context, once the writer has finished save_tunnel_pid for a
\* process id it found, and that process is alive, the record exists and
\* names it: the liveness check has not deleted the record of the live
\* tunnel.
C29_LiveRecordSurvivesStatus ==
    (/\ inv[1].pc \in {"meta", "done"}
     /\ inv[1].pid # NonePid
     /\ proc[inv[1].pid].alive)
        => (/\ pidFile[WriterCtx].exists
            /\ ParseInt(pidFile[WriterCtx].text).ok
            /\ ParseInt(pidFile[WriterCtx].text).val = inv[1].pid)

\* C30: in every entry that list_all_contexts returns, tunnel_pid is present
\* if and only if tunnel_running is true, also when a tunnel process ends
\* while the listing runs.
C30_PidIffRunning ==
    last.op = "list_all_contexts"
        => \A i \in 1..Len(last.listing) :
              last.listing[i].tunnel_pid # NonePid
                  <=> last.listing[i].tunnel_running

\* The tunnel processes: the live ssh processes create_tunnel spawned.
Tunnels(pr) == {p \in Pids : pr[p].alive /\ pr[p].cmd \in Ctx}

\* C31: when kill_all_tunnels returns, SIGTERM has reached every tunnel
\* process that was alive when it started, also one whose process id was
\* never recorded.
C31_KillAllSignalsEveryTunnel ==
    [][last'.op = "kill_all_tunnels"
       => Tunnels(proc) \subseteq last'.signals]_vars

\* The process id the .pid file of c names, if it names one.
RecordedFor(pf, c) ==
    IF pf[c].exists /\ ParseInt(pf[c].text).ok
    THEN {ParseInt(pf[c].text).val} ELSE {}

\* C32: kill_tunnel(c) and is_tunnel_running(c) leave the TunnelRecord and
\* the NetworkMetadata of every other context unchanged, and signal and end
\* no process other than the one recorded for c (is_tunnel_running ends
\* none); kill_tunnel on a context with no TunnelRecord changes nothing and
\* signals nothing.
C32_OnlyOwnContextTouched ==
    [][last'.op \in {"kill_tunnel", "is_tunnel_running"}
       => (/\ \A d \in Ctx \ {last'.ctx} :
                 pidFile'[d] = pidFile[d] /\ netFile'[d] = netFile[d]
           /\ last'.signals \subseteq RecordedFor(pidFile, last'.ctx)
           /\ {p \in Pids : proc'[p] # proc[p]} \subseteq last'.signals
           /\ last'.op = "is_tunnel_running" => proc' = proc
           /\ (last'.op = "kill_tunnel" /\ ~pidFile[last'.ctx].exists)
                 => (/\ pidFile' = pidFile /\ netFile' = netFile
                     /\ proc' = proc /\ last'.signals = {}))]_vars

C32_Witness ==
    /\ last.op = "kill_tunnel" /\ last.preProbe = "mine"
    /\ Cardinality(last.signals) = 1
    /\ last.changed = {<<LastCtx, "pid">>}
    /\ \E d \in Ctx \ {LastCtx} :
          /\ pidFile[d].exists /\ netFile[d].exists
          /\ RecordedFor(pidFile, d) # {}
          /\ \A p \in RecordedFor(pidFile, d) : proc[p].alive

\* The entries of a listing whose tunnel is running.
RECURSIVE RunningOf(_)
RunningOf(listing) ==
    IF Len(listing) = 0 THEN <<>>
    ELSE IF Head(listing).tunnel_running
    THEN <<Head(listing)>> \o RunningOf(Tail(listing))
    ELSE RunningOf(Tail(listing))

\* The tunnel_running values of a listing.
RunningValues(listing) ==
    [i \in 1..Len(listing) |-> listing[i].tunnel_running]

\* C33 as stated: two runs of list_all_contexts in a row with nothing in
\* between return the same contexts with the same tunnel_running values.
C33_ListingStable ==
    last.op = "list_all_contexts twice"
        => (/\ ListedNames(last.listing) = ListedNames(last.once.listing)
            /\ RunningValues(last.listing) = RunningValues(last.once.listing))

\* C33 as amended: of two runs of list_all_contexts in a row with nothing
\* in between, the second returns exactly the entries the first returned
\* with tunnel_running true, unchanged, and removes nothing; a context with
\* a stale record is listed by the first run, as not running, and is missing
\* from the second.
C33_ListingStableForRunning ==
    last.op = "list_all_contexts twice"
        => (/\ last.listing = RunningOf(last.once.listing)
            /\ last.changed = {}
            /\ \A i \in 1..Len(last.once.listing) :
                  ~last.once.listing[i].tunnel_running
                      => /\ <<last.once.listing[i].name, "pid">> \in last.once.changed
                         /\ \A j \in 1..Len(last.listing) :
                               last.listing[j].name # last.once.listing[i].name)

C33_Witness ==
    /\ last.op = "list_all_contexts twice"
    /\ Len(last.once.listing) = 2 /\ Len(last.listing) = 1
    /\ last.once.listing[1].tunnel_running
    /\ ~last.once.listing[2].tunnel_running
    /\ last.listing = <<last.once.listing[1]>>
    /\ last.changed = {}

====
